---- MODULE Spec2Model ----
(***************************************************************************)
(* hubblestack_nova/modules/sysctl.py: the sysctl audit module.            *)
(*                                                                         *)
(* audit(data_list, tags, verbose, show_profile) merges the rule           *)
(* documents (_merge_yaml), builds the tag index for this host             *)
(* (_get_tags), looks every indexed parameter up and classifies each tag,  *)
(* and shapes the report.                                                  *)
(*                                                                         *)
(* Representation of the Python values:                                    *)
(*   - a str that is globbed, split or compared by prefix is a sequence    *)
(*     of one-character strings; other strs are TLA+ strings;              *)
(*   - a dict with str keys whose iteration order does not matter is a     *)
(*     function (a record); a dict that the code iterates is a sequence    *)
(*     of <<key, value>> pairs with distinct keys, in iteration order;     *)
(*   - d.get(k) is <<>> for None and <<v>> for a value v;                  *)
(*   - a value the code passes to str() is [t |-> "str", v |-> chars] or   *)
(*     [t |-> "int", v |-> n];                                             *)
(*   - a rule variant is [kind |-> "list", v |-> sequence of single-key    *)
(*     mappings], [kind |-> "dict", v |-> pairs] or [kind |-> "null"]      *)
(*     (YAML null, Python None);                                           *)
(*   - a CheckSpec is [kind |-> "dict", d |-> mapping] or                  *)
(*     [kind |-> "scalar", v |-> chars].                                   *)
(***************************************************************************)
EXTENDS Integers, Sequences, FiniteSets, TLC

VARIABLES
    pc,            \* position in audit: "merge", "evaluate", "aggregate", "done", "raised"
    data_list,     \* the (profile, data) pairs audit has still to merge
    tags,          \* the tag filter (a glob)
    verbose,       \* argument of audit
    show_profile,  \* argument of audit
    __data__,      \* the merged rule store: __data__['sysctl']
    distro,        \* __grains__.get('osfinger') as _get_tags read it (<<>> before)
    __tags__,      \* the tag index, in the iteration order of the dict
    built,         \* history: one record per canonical entry _get_tags built
    sysctl,        \* the live values __salt__['sysctl.get'] answers with
    calls,         \* history: the names passed to sysctl.get, in call order
    ret,           \* the evaluator's raw classification (audit's ret before line 93)
    report         \* what audit returns

vars == <<pc, data_list, tags, verbose, show_profile, __data__, distro,
          __tags__, built, sysctl, calls, ret, report>>

-----------------------------------------------------------------------------
(* Python values *)

PyStr(s) == [t |-> "str", v |-> s]
PyInt(n) == [t |-> "int", v |-> n]

Digit == <<"0", "1", "2", "3", "4", "5", "6", "7", "8", "9">>

RECURSIVE IntToChars(_)
IntToChars(n) ==
    IF n < 10 THEN <<Digit[n + 1]>>
    ELSE Append(IntToChars(n \div 10), Digit[(n % 10) + 1])

\* str(x)
str(x) == IF x.t = "str" THEN x.v ELSE IntToChars(x.v)

\* bool(x): an empty str and the int 0 are falsy
Truthy(x) == IF x.t = "str" THEN x.v # <<>> ELSE x.v # 0

\* s.startswith(prefix)
startswith(s, prefix) ==
    /\ Len(s) >= Len(prefix)
    /\ SubSeq(s, 1, Len(prefix)) = prefix

ErrorPrefix == <<"e", "r", "r", "o", "r">>

\* d.get(k): None is <<>>
Get(d, k) == IF k \in DOMAIN d THEN <<d[k]>> ELSE <<>>

\* d.update(other): the keys of other win
update(d, other) == other @@ d

\* d minus key k (d.pop(k) on a dict that has k)
Pop(d, k) == [x \in (DOMAIN d) \ {k} |-> d[x]]

\* the set of elements of a sequence
Range(s) == {s[i] : i \in 1..Len(s)}

\* an iterated dict: its keys, and the value at a key
Keys(pairs) == {pairs[i][1] : i \in 1..Len(pairs)}
At(pairs, k) == pairs[CHOOSE i \in 1..Len(pairs) : pairs[i][1] = k][2]

PyNone == [kind |-> "null"]
EmptyList == [kind |-> "list", v |-> <<>>]

-----------------------------------------------------------------------------
(* fnmatch.fnmatch on a POSIX host: the whole name against a shell glob with *)
(* "*", "?" and bracket classes ("[seq]", "[!seq]"; ranges are not modelled) *)

RECURSIVE ScanClass(_, _)
ScanClass(rest, j) ==
    IF j > Len(rest) THEN 0
    ELSE IF rest[j] = "]" THEN j
    ELSE ScanClass(rest, j + 1)

\* the index in rest (the pattern after "[") of the "]" closing the class; 0: none
ClassClose(rest) ==
    LET j1 == IF Len(rest) >= 1 /\ rest[1] = "!" THEN 2 ELSE 1
        j2 == IF j1 <= Len(rest) /\ rest[j1] = "]" THEN j1 + 1 ELSE j1
    IN  ScanClass(rest, j2)

RECURSIVE fnmatch(_, _)
fnmatch(name, pat) ==
    IF pat = <<>> THEN name = <<>>
    ELSE LET c == Head(pat)
             rest == Tail(pat)
         IN  IF c = "*"
             THEN \/ fnmatch(name, rest)
                  \/ name # <<>> /\ fnmatch(Tail(name), pat)
             ELSE IF c = "?"
             THEN name # <<>> /\ fnmatch(Tail(name), rest)
             ELSE IF c = "[" /\ ClassClose(rest) # 0
             THEN LET j == ClassClose(rest)
                      stuff == SubSeq(rest, 1, j - 1)
                      negate == stuff[1] = "!"
                      members == IF negate THEN Range(Tail(stuff)) ELSE Range(stuff)
                  IN  /\ name # <<>>
                      /\ (Head(name) \in members) # negate
                      /\ fnmatch(Tail(name), SubSeq(rest, j + 1, Len(rest)))
             ELSE name # <<>> /\ Head(name) = c /\ fnmatch(Tail(name), rest)

\* the first index of character c in s; 0: none
IndexOf(s, c) ==
    IF \E i \in 1..Len(s) : s[i] = c
    THEN CHOOSE i \in 1..Len(s) : s[i] = c /\ \A j \in 1..(i - 1) : s[j] # c
    ELSE 0

\* s.split(',')
RECURSIVE split(_)
split(s) ==
    LET i == IndexOf(s, ",")
    IN  IF i = 0 THEN <<s>>
        ELSE <<SubSeq(s, 1, i - 1)>> \o split(SubSeq(s, i + 1, Len(s)))

\* s.strip()
RECURSIVE lstrip(_)
lstrip(s) == IF s # <<>> /\ Head(s) = " " THEN lstrip(Tail(s)) ELSE s

RECURSIVE rstrip(_)
rstrip(s) ==
    IF s # <<>> /\ s[Len(s)] = " " THEN rstrip(SubSeq(s, 1, Len(s) - 1)) ELSE s

strip(s) == rstrip(lstrip(s))

-----------------------------------------------------------------------------
(* _merge_yaml, lines 153-163 *)

\* data is a rule document (a mapping that may hold 'sysctl': pairs of rule id
\* and rule definition); profile is <<>> (None) or <<name>>
_merge_yaml(store, data, profile) ==
    LET rules == IF "sysctl" \in DOMAIN data THEN data.sysctl ELSE <<>>
    IN  store \o
        [i \in 1..Len(rules) |->
            LET key == rules[i][1]
                val == rules[i][2]
            IN  key :> (IF profile # <<>>
                        THEN update(val, [nova_profile |-> profile[1]])
                        ELSE val)]

-----------------------------------------------------------------------------
(* _get_tags, lines 166-209 *)

\* lines 179-183: some glob of the comma-separated key matches the host
KeyMatches(host, osfinger) ==
    LET osfinger_list == [k \in 1..Len(split(osfinger)) |-> strip(split(osfinger)[k])]
    IN  \E k \in 1..Len(osfinger_list) : fnmatch(host, osfinger_list[k])

\* lines 175-185: the loop over the pattern keys from key i on; tags is None
\* (PyNone) until a key assigns it, and the loop ends once tags is not None
RECURSIVE ScanKeys(_, _, _)
ScanKeys(host, tags_dict, i) ==
    IF i > Len(tags_dict) THEN PyNone
    ELSE LET osfinger == tags_dict[i][1]
         IN  IF osfinger = <<"*">> THEN ScanKeys(host, tags_dict, i + 1)
             ELSE LET found == IF KeyMatches(host, osfinger)
                               THEN At(tags_dict, osfinger)
                               ELSE PyNone
                  IN  IF found # PyNone THEN found
                      ELSE ScanKeys(host, tags_dict, i + 1)

\* lines 174-188: the variant selected for the host
SelectVariant(host, tags_dict) ==
    LET found == ScanKeys(host, tags_dict, 1)
    IN  IF found = PyNone
        THEN IF <<"*">> \in Keys(tags_dict) THEN At(tags_dict, <<"*">>) ELSE EmptyList
        ELSE found

\* Normalize that lists a malformed mapping's keys in the reverse order
Normalize_Reversed(variant) ==
    IF variant.kind = "dict"
    THEN [i \in 1..Len(variant.v) |->
            variant.v[Len(variant.v) + 1 - i][1] :> variant.v[Len(variant.v) + 1 - i][2]]
    ELSE variant.v

\* lines 189-194: a malformed mapping becomes a list of single-key mappings
Normalize(variant) ==
    IF variant.kind = "dict"
    THEN [i \in 1..Len(variant.v) |-> variant.v[i][1] :> variant.v[i][2]]
    ELSE variant.v

\* lines 202-207: the canonical entry
FormatEntry(name, tag, tag_data, audit_data) ==
    LET formatted_data == [name |-> name, tag |-> tag, module |-> "sysctl"]
    IN  Pop(update(update(formatted_data, tag_data), audit_data), "data")

\* lines 196-208 for one single-key mapping of the variant. st carries the
\* index (ret: records of a tag and its entries, in insertion order), the
\* function's local tag_data (<<>> while unbound), the exception raised, and
\* the history of the entries built (rule id, check name, CheckSpec, rule
\* definition minus data, entry)
RuleItem(st, item, audit_id, audit_data) ==
    LET name == CHOOSE n \in DOMAIN item : TRUE
        tag == item[name]
        bound == IF tag.kind = "dict" THEN <<tag.d>> ELSE st.tag_data
    IN  IF st.raised # "" THEN st
        ELSE IF tag.kind = "dict" /\ "tag" \notin DOMAIN tag.d
        THEN [st EXCEPT !.raised = "KeyError"]
        ELSE IF bound = <<>>
        THEN [st EXCEPT !.raised = "UnboundLocalError"]
        ELSE
        LET tag_data == IF tag.kind = "dict" THEN Pop(tag.d, "tag") ELSE bound[1]
            key == IF tag.kind = "dict" THEN tag.d["tag"] ELSE tag.v
            entry == FormatEntry(name, key, tag_data, audit_data)
            at == IF \E i \in 1..Len(st.ret) : st.ret[i].tag = key
                  THEN CHOOSE i \in 1..Len(st.ret) : st.ret[i].tag = key
                  ELSE 0
        IN  [st EXCEPT
               !.tag_data = <<tag_data>>,
               !.ret = IF at = 0
                       THEN Append(@, [tag |-> key, entries |-> <<entry>>])
                       ELSE [@ EXCEPT ![at].entries = Append(@, entry)],
               !.built = Append(@, [audit_id |-> audit_id, name |-> name,
                                    spec |-> tag,
                                    rule |-> Pop(audit_data, "data"),
                                    entry |-> entry])]

RECURSIVE RuleItems(_, _, _, _, _)
RuleItems(st, items, i, audit_id, audit_data) ==
    IF i > Len(items) THEN st
    ELSE RuleItems(RuleItem(st, items[i], audit_id, audit_data), items, i + 1,
                   audit_id, audit_data)

\* lines 173-208 for one rule id
GetTagsRule(st, audit_dict, host) ==
    LET audit_id == CHOOSE k \in DOMAIN audit_dict : TRUE
        audit_data == audit_dict[audit_id]
        tags_dict == IF "data" \in DOMAIN audit_data THEN audit_data.data ELSE <<>>
        variant == SelectVariant(host, tags_dict)
    IN  IF st.raised # "" THEN st
        ELSE IF variant.kind = "null" THEN [st EXCEPT !.raised = "TypeError"]
        ELSE RuleItems(st, Normalize(variant), 1, audit_id, audit_data)

RECURSIVE GetTagsFrom(_, _, _, _)
GetTagsFrom(st, store, i, host) ==
    IF i > Len(store) THEN st
    ELSE GetTagsFrom(GetTagsRule(st, store[i], host), store, i + 1, host)

_get_tags(store, host) ==
    GetTagsFrom([ret |-> <<>>, tag_data |-> <<>>, raised |-> "", built |-> <<>>],
                store, 1, host)

-----------------------------------------------------------------------------
(* audit: the evaluator, lines 69-91 *)

\* LookupFails without the test of line 84 (the "error" prefix)
LookupFails_NoPrefix(salt_ret, match_output) ==
    \/ ~Truthy(salt_ret)
    \/ str(salt_ret) # str(match_output)

\* lines 82-87: what makes passed False for one lookup
LookupFails(salt_ret, match_output) ==
    \/ ~Truthy(salt_ret)
    \/ startswith(str(salt_ret), ErrorPrefix)
    \/ str(salt_ret) # str(match_output)

\* EvalEntry that stops looking values up once an entry of the tag has failed
EvalEntry_ShortCircuit(st, tag_data, live) ==
    IF st.raised # "" THEN st
    ELSE IF "control" \in DOMAIN tag_data
    THEN [st EXCEPT !.Controlled = Append(@, tag_data)]
    ELSE IF ~st.passed THEN st
    ELSE [st EXCEPT !.calls = Append(@, tag_data.name),
                    !.passed = ~LookupFails(live[tag_data.name],
                                            tag_data.match_output)]

\* lines 75-87 for one entry of a tag. st carries passed, ret['Controlled'],
\* the calls made and the exception raised; live is the table sysctl.get reads
EvalEntry(st, tag_data, live) ==
    IF st.raised # "" THEN st
    ELSE IF "control" \in DOMAIN tag_data
    THEN [st EXCEPT !.Controlled = Append(@, tag_data)]
    ELSE IF "match_output" \notin DOMAIN tag_data
    THEN [st EXCEPT !.raised = "KeyError"]
    ELSE LET name == tag_data.name
             match_output == tag_data.match_output
             salt_ret == live[name]
         IN  [st EXCEPT !.calls = Append(@, name),
                        !.passed = @ /\ ~LookupFails(salt_ret, match_output)]

RECURSIVE EvalEntries(_, _, _, _)
EvalEntries(st, entries, i, live) ==
    IF i > Len(entries) THEN st
    ELSE EvalEntries(EvalEntry(st, entries[i], live), entries, i + 1, live)

\* EvalTag with lines 88-91 recording each evaluated entry of the tag
EvalTag_PerEntry(st, rec, filter, live) ==
    IF st.raised # "" \/ ~fnmatch(rec.tag, filter) THEN st
    ELSE LET s == EvalEntries([st EXCEPT !.passed = TRUE], rec.entries, 1, live)
             evaluated == SelectSeq(rec.entries, LAMBDA e : "control" \notin DOMAIN e)
         IN  IF s.raised # "" THEN s
             ELSE IF s.passed
             THEN [s EXCEPT !.Success = @ \o evaluated]
             ELSE [s EXCEPT !.Failure = @ \o evaluated]

\* lines 72-91 for one tag of the index: after the loop over its entries,
\* tag_data is the last entry iterated
EvalTag(st, rec, filter, live) ==
    IF st.raised # "" \/ ~fnmatch(rec.tag, filter) THEN st
    ELSE LET s == EvalEntries([st EXCEPT !.passed = TRUE], rec.entries, 1, live)
             tag_data == rec.entries[Len(rec.entries)]
         IN  IF s.raised # "" THEN s
             ELSE IF s.passed
             THEN [s EXCEPT !.Success = Append(@, tag_data)]
             ELSE [s EXCEPT !.Failure = Append(@, tag_data)]

RECURSIVE EvalTags(_, _, _, _, _)
EvalTags(st, index, i, filter, live) ==
    IF i > Len(index) THEN st
    ELSE EvalTags(EvalTag(st, index[i], filter, live), index, i + 1, filter, live)

Evaluator(index, filter, live) ==
    EvalTags([Success |-> <<>>, Failure |-> <<>>, Controlled |-> <<>>,
              passed |-> TRUE, calls |-> <<>>, raised |-> ""],
             index, 1, filter, live)

-----------------------------------------------------------------------------
(* audit: the report, lines 93-150 *)

\* Summarize without the test of lines 104, 113, 123: every record is kept
Summarize_NoDedup(records, i, seen, out, controlled) ==
    [k \in 1..Len(records) |->
        IF controlled
        THEN records[k].tag :> [description |-> Get(records[k], "description"),
                                control |-> records[k].control]
        ELSE records[k].tag :> Get(records[k], "description")]

\* lines 99-127: the loop that keeps the first record of each key combination.
\* A single-key dict {tag: x} is the function tag :> x
RECURSIVE Summarize(_, _, _, _, _)
Summarize(records, i, seen, out, controlled) ==
    IF i > Len(records) THEN out
    ELSE LET tag_data == records[i]
             tag == tag_data.tag
             description == Get(tag_data, "description")
             control_reason == IF "control" \in DOMAIN tag_data
                               THEN tag_data.control ELSE ""
             key == IF controlled THEN <<tag, description, control_reason>>
                    ELSE <<tag, description>>
             item == IF controlled
                     THEN tag :> [description |-> description,
                                  control |-> control_reason]
                     ELSE tag :> description
         IN  IF key \in seen
             THEN Summarize(records, i + 1, seen, out, controlled)
             ELSE Summarize(records, i + 1, seen \cup {key}, Append(out, item),
                            controlled)

\* lines 131-141
Verbose(records) == [i \in 1..Len(records) |-> records[i].tag :> records[i]]

\* lines 93-150
Aggregate(raw, v) ==
    LET failure == IF ~v THEN Summarize(raw.Failure, 1, {}, <<>>, FALSE)
                   ELSE Verbose(raw.Failure)
        success == IF ~v THEN Summarize(raw.Success, 1, {}, <<>>, FALSE)
                   ELSE Verbose(raw.Success)
        controlled == IF ~v THEN Summarize(raw.Controlled, 1, {}, <<>>, TRUE)
                      ELSE Verbose(raw.Controlled)
    IN  IF controlled = <<>>
        THEN [Success |-> success, Failure |-> failure]
        ELSE [Success |-> success, Failure |-> failure, Controlled |-> controlled]

-----------------------------------------------------------------------------
(* The inputs audit is run on *)

\* the number of rule ids in the documents of one run
MaxRules == 2

T1 == <<"T", "1">>
T2 == <<"T", "2">>

Dict(d) == [kind |-> "dict", d |-> d]
Scalar(v) == [kind |-> "scalar", v |-> v]
ListOf(v) == [kind |-> "list", v |-> v]
DictOf(v) == [kind |-> "dict", v |-> v]

\* CheckSpecs: match_output as YAML reads it (2 unquoted is an int)
SpecPlain == Dict([tag |-> T1, match_output |-> PyInt(2)])
SpecEmpty == Dict([tag |-> T1, match_output |-> PyStr(<<>>), description |-> "cd"])
SpecError == Dict([tag |-> T2, match_output |-> PyStr(ErrorPrefix)])
SpecCtl == Dict([tag |-> T1, match_output |-> PyInt(2), control |-> "ok"])
SpecNoTag == Dict([match_output |-> PyInt(2)])
SpecScalar == Scalar(T2)

\* the rule definitions, each with its rule id
RuleDefs ==
    { <<"r1", [data |-> << <<(<<"*">>), ListOf(<<"a" :> SpecPlain>>)>> >>,
               description |-> "rd"]>>,
      <<"r2", [data |-> << <<(<<"c", "7">>), ListOf(<<"b" :> SpecPlain>>)>> >>,
               description |-> "rd"]>>,
      <<"r3", [data |-> << <<(<<"d", "9", ",", " ", "c", "[", "6", "7", "]">>),
                             DictOf(<< <<"a", SpecPlain>>, <<"b", SpecEmpty>> >>)>> >>]>>,
      <<"r4", [data |-> << <<(<<"c", "7">>), PyNone>>,
                           <<(<<"*">>), ListOf(<<"b" :> SpecEmpty, "a" :> SpecCtl>>)>> >>,
               description |-> "rd"]>>,
      <<"r5", [data |-> << <<(<<"*">>), PyNone>>,
                           <<(<<"c", "?">>), ListOf(<<"a" :> SpecError>>)>> >>,
               description |-> "rd"]>>,
      <<"r6", [data |-> << <<(<<"*">>), ListOf(<<"a" :> SpecNoTag>>)>> >>,
               description |-> "rd"]>>,
      <<"r7", [data |-> << <<(<<"*">>), ListOf(<<"a" :> SpecCtl, "b" :> SpecScalar>>)>> >>]>>,
      <<"r8", [data |-> << <<(<<"*">>), ListOf(<<"b" :> SpecScalar>>)>> >>,
               description |-> "rd"]>>,
      <<"r9", [data |-> << <<(<<"*">>), ListOf(<<"b" :> SpecCtl>>)>> >>,
               description |-> "rd"]>> }

Hosts == {<<"c", "7">>, <<"d", "9">>}
TagFilters == {<<"T", "1">>, <<"T", "?">>}
LiveValues == {PyStr(<<"2">>), PyStr(<<>>), PyStr(ErrorPrefix)}

ProfileOf(i) == <<"p">> \o IntToChars(i)

RuleSeqs == UNION {[1..k -> RuleDefs] : k \in 0..MaxRules}

\* one document per rule id
OnePerDoc(rs) == [i \in 1..Len(rs) |-> <<ProfileOf(i), [sysctl |-> <<rs[i]>>]>>]

\* the rule ids in one document (the keys of a mapping are distinct), or a
\* document without the 'sysctl' key
OneDoc(rs) ==
    IF rs = <<>> THEN << <<ProfileOf(1), [other |-> <<>>]>> >>
    ELSE << <<ProfileOf(1), [sysctl |-> rs]>> >>

DataLists ==
    {OnePerDoc(rs) : rs \in RuleSeqs} \cup
    {OneDoc(rs) : rs \in {x \in RuleSeqs :
                            \A i, j \in 1..Len(x) : x[i][1] = x[j][1] => i = j}}

Perms(n) == {p \in [1..n -> 1..n] : \A i, j \in 1..n : p[i] = p[j] => i = j}

\* the parameter names the index holds
IndexNames(index) ==
    UNION {{index[i].entries[j].name : j \in 1..Len(index[i].entries)} :
           i \in 1..Len(index)}

EmptyRet == [Success |-> <<>>, Failure |-> <<>>, Controlled |-> <<>>]

-----------------------------------------------------------------------------
(* audit, lines 52-150 *)

Init ==
    /\ pc = "merge"
    /\ data_list \in DataLists
    /\ tags \in TagFilters
    /\ verbose \in BOOLEAN
    /\ show_profile \in BOOLEAN
    /\ __data__ = <<>>
    /\ distro = <<>>
    /\ __tags__ = <<>>
    /\ built = <<>>
    /\ sysctl = <<>>
    /\ calls = <<>>
    /\ ret = EmptyRet
    /\ report = <<>>

\* lines 57-61: one (profile, data) pair
MergeYaml ==
    /\ pc = "merge"
    /\ data_list # <<>>
    /\ LET profile == Head(data_list)[1]
           data == Head(data_list)[2]
       IN  __data__' = IF show_profile
                       THEN _merge_yaml(__data__, data, <<profile>>)
                       ELSE _merge_yaml(__data__, data, <<>>)
    /\ data_list' = Tail(data_list)
    /\ UNCHANGED <<pc, tags, verbose, show_profile, distro, __tags__, built,
                   sysctl, calls, ret, report>>

\* line 62: the host identity is read from the grains; the dict that comes
\* back iterates its tags in an order of its own
GetTags ==
    /\ pc = "merge"
    /\ data_list = <<>>
    /\ \E host \in Hosts :
         LET r == _get_tags(__data__, host)
         IN  /\ distro' = host
             /\ built' = r.built
             /\ IF r.raised # ""
                THEN /\ pc' = "raised"
                     /\ __tags__' = <<>>
                ELSE /\ pc' = "evaluate"
                     /\ \E order \in Perms(Len(r.ret)) :
                          __tags__' = [i \in 1..Len(r.ret) |-> r.ret[order[i]]]
    /\ UNCHANGED <<data_list, tags, verbose, show_profile, __data__, sysctl,
                   calls, ret, report>>

\* lines 69-91: sysctl.get answers from the live values of the host
Evaluate ==
    /\ pc = "evaluate"
    /\ \E live \in [IndexNames(__tags__) -> LiveValues] :
         LET r == Evaluator(__tags__, tags, live)
         IN  /\ sysctl' = live
             /\ calls' = r.calls
             /\ ret' = [Success |-> r.Success, Failure |-> r.Failure,
                        Controlled |-> r.Controlled]
             /\ pc' = IF r.raised # "" THEN "raised" ELSE "aggregate"
    /\ UNCHANGED <<data_list, tags, verbose, show_profile, __data__, distro,
                   __tags__, built, report>>

\* lines 93-150
Report ==
    /\ pc = "aggregate"
    /\ report' = Aggregate(ret, verbose)
    /\ pc' = "done"
    /\ UNCHANGED <<data_list, tags, verbose, show_profile, __data__, distro,
                   __tags__, built, sysctl, calls, ret>>

Next == MergeYaml \/ GetTags \/ Evaluate \/ Report

Spec == Init /\ [][Next]_vars

-----------------------------------------------------------------------------
(* Properties *)

\* the evaluator has classified every tag
Classified == pc \in {"aggregate", "done"}

IsControlled(e) == "control" \in DOMAIN e

\* an entry's lookup passes: the live value is truthy, its string form does
\* not start with "error" and equals the string form of match_output
Passes(e) ==
    LET r == sysctl[e.name]
    IN  /\ Truthy(r)
        /\ ~startswith(str(r), ErrorPrefix)
        /\ str(r) = str(e.match_output)

\* the positions of the records of tag t in a category
TagPositions(records, t) == {k \in 1..Len(records) : records[k].tag = t}

\* C1: an entry that carries `control` is reported only under Controlled; it
\* is never a record of Success or of Failure.
C1_ControlledOnlyControlled ==
    Classified =>
      \A e \in Range(ret.Success) \cup Range(ret.Failure) : ~IsControlled(e)

\* C2: every tag that matches the filter is recorded once, under Success if
\* and only if each of its non-controlled entries passes and under Failure
\* otherwise, and the record is the last entry of the tag.
C2_TagVerdict ==
    Classified =>
      \A i \in 1..Len(__tags__) :
        LET rec == __tags__[i]
            last == rec.entries[Len(rec.entries)]
            allPass == \A j \in 1..Len(rec.entries) :
                         IsControlled(rec.entries[j]) \/ Passes(rec.entries[j])
            S == TagPositions(ret.Success, rec.tag)
            F == TagPositions(ret.Failure, rec.tag)
        IN  fnmatch(rec.tag, tags) =>
              /\ Cardinality(S) = (IF allPass THEN 1 ELSE 0)
              /\ Cardinality(F) = (IF allPass THEN 0 ELSE 1)
              /\ \A k \in S : ret.Success[k] = last
              /\ \A k \in F : ret.Failure[k] = last

\* C2's case: a matching tag with a passing and a failing non-controlled
\* entry, recorded under Failure
C2_Witness ==
    /\ Classified
    /\ \E i \in 1..Len(__tags__) :
         LET es == __tags__[i].entries
         IN  /\ fnmatch(__tags__[i].tag, tags)
             /\ \E j, k \in 1..Len(es) :
                  /\ ~IsControlled(es[j]) /\ Passes(es[j])
                  /\ ~IsControlled(es[k]) /\ ~Passes(es[k])
             /\ es[Len(es)] \in Range(ret.Failure)

\* the names of the non-controlled entries, in order
LookedUp(entries) ==
    LET kept == SelectSeq(entries, LAMBDA e : ~IsControlled(e))
    IN  [k \in 1..Len(kept) |-> kept[k].name]

RECURSIVE ExpectedCalls(_, _)
ExpectedCalls(index, i) ==
    IF i > Len(index) THEN <<>>
    ELSE (IF fnmatch(index[i].tag, tags) THEN LookedUp(index[i].entries) ELSE <<>>)
         \o ExpectedCalls(index, i + 1)

\* C3: the lookup is called exactly once for each non-controlled entry of each
\* tag that matches the filter, in tag-then-entry order, also after an entry of
\* the tag has failed; never for a controlled entry or a tag that does not match.
C3_LookupCalls ==
    Classified => calls = ExpectedCalls(__tags__, 1)

\* C3's case: a matching tag with a controlled entry and a failed entry that
\* is followed by another looked-up entry
C3_Witness ==
    /\ Classified
    /\ \E i \in 1..Len(__tags__) :
         LET es == __tags__[i].entries
         IN  /\ fnmatch(__tags__[i].tag, tags)
             /\ \E j \in 1..Len(es) : IsControlled(es[j])
             /\ \E j, k \in 1..Len(es) :
                  /\ j < k
                  /\ ~IsControlled(es[j]) /\ ~Passes(es[j])
                  /\ ~IsControlled(es[k])

\* an entry that was looked up and failed
Failing(e) == ~IsControlled(e) /\ ~Passes(e)

\* two rule ids each contributed a failing entry, with the same tag and the
\* same description, to a tag that matches the filter
SameTagFailures(b1, b2) ==
    /\ b1.audit_id # b2.audit_id
    /\ Failing(b1.entry) /\ Failing(b2.entry)
    /\ b1.entry.tag = b2.entry.tag
    /\ Get(b1.entry, "description") = Get(b2.entry, "description")
    /\ fnmatch(b1.entry.tag, tags)

\* the positions of the items {t: ...} in a category of the report
ItemsOfTag(items, t) == {k \in 1..Len(items) : DOMAIN items[k] = {t}}

LastEntryOf(t) ==
    LET rec == __tags__[CHOOSE i \in 1..Len(__tags__) : __tags__[i].tag = t]
    IN  rec.entries[Len(rec.entries)]

\* C4 as stated: with verbose=true, two rule ids that each contribute a failing
\* entry with the same tag and description both appear, as separate items, in
\* the Failure category.
C4_BothAppear ==
    (pc = "done" /\ verbose) =>
      \A b1, b2 \in Range(built) :
        SameTagFailures(b1, b2) =>
          \E i, j \in 1..Len(report.Failure) :
            /\ i # j
            /\ report.Failure[i] = (b1.entry.tag :> b1.entry)
            /\ report.Failure[j] = (b2.entry.tag :> b2.entry)

\* C4 amended: with verbose=true, two rule ids that each contribute a failing
\* entry with the same tag and description leave exactly one item for that tag
\* in the Failure category, wrapping the last entry iterated for the tag, and
\* none in Success.
C4_OneItemPerTag ==
    (pc = "done" /\ verbose) =>
      \A b1, b2 \in Range(built) :
        SameTagFailures(b1, b2) =>
          LET t == b1.entry.tag
              F == ItemsOfTag(report.Failure, t)
          IN  /\ Cardinality(F) = 1
              /\ \A k \in F : report.Failure[k] = (t :> LastEntryOf(t))
              /\ ItemsOfTag(report.Success, t) = {}

\* C4's case: a verbose run in which two rule ids failed under one tag
C4_Witness ==
    /\ pc = "done"
    /\ verbose
    /\ \E b1, b2 \in Range(built) : SameTagFailures(b1, b2)

\* the summary item of a classified record
SummaryItem(e, controlled) ==
    IF controlled
    THEN e.tag :> [description |-> Get(e, "description"), control |-> e.control]
    ELSE e.tag :> Get(e, "description")

FirstAt(items, x) ==
    CHOOSE i \in 1..Len(items) : items[i] = x /\ \A j \in 1..(i - 1) : items[j] # x

\* no key combination twice, every combination of the records once, in the
\* order of first occurrence
FirstOccurrences(records, items, controlled) ==
    LET raw == [i \in 1..Len(records) |-> SummaryItem(records[i], controlled)]
    IN  /\ \A i, j \in 1..Len(items) : items[i] = items[j] => i = j
        /\ Range(items) = Range(raw)
        /\ \A i, j \in 1..Len(items) :
             i < j => FirstAt(raw, items[i]) < FirstAt(raw, items[j])

\* C5: with verbose=false each category of the report holds every key
\* combination of its classified records exactly once, in the order of the
\* first occurrence.
C5_SummaryDedup ==
    (pc = "done" /\ ~verbose) =>
      /\ FirstOccurrences(ret.Success, report.Success, FALSE)
      /\ FirstOccurrences(ret.Failure, report.Failure, FALSE)
      /\ IF "Controlled" \in DOMAIN report
         THEN FirstOccurrences(ret.Controlled, report.Controlled, TRUE)
         ELSE ret.Controlled = <<>>

\* C5's case: a summary with two Controlled items from which a repeated key
\* combination was dropped
C5_Witness ==
    /\ pc = "done"
    /\ ~verbose
    /\ "Controlled" \in DOMAIN report
    /\ Len(report.Controlled) >= 2
    /\ Len(ret.Controlled) > Len(report.Controlled)

\* C6: in a canonical entry built from a CheckSpec mapping the CheckSpec's
\* value stands on every key the CheckSpec (minus tag) and the rule definition
\* (minus data) share, the rule definition fills the other keys, and name, tag
\* and module are the check name, the extracted tag and "sysctl".
C6_CheckSpecWins ==
    \A b \in Range(built) :
      b.spec.kind = "dict" =>
        LET cs == Pop(b.spec.d, "tag")
        IN  /\ \A k \in DOMAIN cs \cap DOMAIN b.rule : b.entry[k] = cs[k]
            /\ \A k \in (DOMAIN b.rule) \ (DOMAIN cs \cup {"name", "tag", "module"}) :
                 b.entry[k] = b.rule[k]
            /\ b.entry.name = b.name
            /\ b.entry.tag = b.spec.d.tag
            /\ b.entry.module = "sysctl"

\* a rule id with a shape error on this host: the selected variant is null, or
\* holds a CheckSpec mapping without `tag`
ShapeError(audit_dict, host) ==
    LET audit_data == audit_dict[CHOOSE k \in DOMAIN audit_dict : TRUE]
        variant == SelectVariant(host, IF "data" \in DOMAIN audit_data
                                       THEN audit_data.data ELSE <<>>)
    IN  \/ variant.kind = "null"
        \/ \E item \in Range(Normalize(variant)) :
             \E n \in DOMAIN item :
               item[n].kind = "dict" /\ "tag" \notin DOMAIN item[n].d

\* audit on this store, host, filter, live values and verbosity can return rep
CanReturn(store, rep) ==
    LET r == _get_tags(store, distro)
    IN  /\ r.raised = ""
        /\ \E order \in Perms(Len(r.ret)) :
             LET e == Evaluator([i \in 1..Len(r.ret) |-> r.ret[order[i]]], tags, sysctl)
             IN  /\ e.raised = ""
                 /\ Aggregate([Success |-> e.Success, Failure |-> e.Failure,
                               Controlled |-> e.Controlled], verbose) = rep

\* C7: a rule id with a shape error fails alone: the run does not raise, and
\* the report is the one the run gives without the offending rule ids.
C7_ShapeErrorConfined ==
    (/\ pc \in {"raised", "done"}
     /\ \E i \in 1..Len(__data__) : ShapeError(__data__[i], distro)) =>
      /\ pc = "done"
      /\ CanReturn(SelectSeq(__data__, LAMBDA r : ~ShapeError(r, distro)), report)

\* the variant of the first non-wildcard key with a glob that matches the host,
\* else the variant under "*", else an empty list
FirstMatch(host, tags_dict) ==
    LET M == {i \in 1..Len(tags_dict) :
                tags_dict[i][1] # <<"*">> /\ KeyMatches(host, tags_dict[i][1])}
    IN  IF M # {} THEN tags_dict[CHOOSE i \in M : \A j \in M : i <= j][2]
        ELSE IF <<"*">> \in Keys(tags_dict) THEN At(tags_dict, <<"*">>)
        ELSE EmptyList

\* C8: variant selection returns the variant of the first non-wildcard key
\* that matches the host, and the "*" variant (or an empty list) only when no
\* non-wildcard key matches.
C8_FirstMatchWins ==
    distro # <<>> =>
      \A i \in 1..Len(__data__) :
        LET audit_data == __data__[i][CHOOSE k \in DOMAIN __data__[i] : TRUE]
        IN  SelectVariant(distro, audit_data.data) = FirstMatch(distro, audit_data.data)

\* C10: the entry built from a scalar CheckSpec has the scalar as its tag and
\* exactly the keys name, tag, module and those of the rule definition minus
\* data.
C10_ScalarNoExtras ==
    \A b \in Range(built) :
      b.spec.kind = "scalar" =>
        /\ b.entry.tag = b.spec.v
        /\ DOMAIN b.entry = {"name", "tag", "module"} \cup DOMAIN b.rule

\* the sequence forms of a variant: a malformed mapping as the sequence of its
\* single-key mappings, in any order of its keys
ListFormsOf(variant) ==
    IF variant.kind = "dict"
    THEN {ListOf([i \in 1..Len(variant.v) |->
                    variant.v[p[i]][1] :> variant.v[p[i]][2]]) :
          p \in Perms(Len(variant.v))}
    ELSE {variant}

\* the sequence form that lists the keys in the mapping's enumeration order
SameOrderListForm(variant) ==
    IF variant.kind = "dict"
    THEN ListOf([i \in 1..Len(variant.v) |-> variant.v[i][1] :> variant.v[i][2]])
    ELSE variant

RECURSIVE PatternForms(_)
PatternForms(tags_dict) ==
    IF tags_dict = <<>> THEN {<<>>}
    ELSE {<< <<Head(tags_dict)[1], form>> >> \o rest :
            form \in ListFormsOf(Head(tags_dict)[2]),
            rest \in PatternForms(Tail(tags_dict))}

\* the rule stores that give every malformed mapping as a sequence
RECURSIVE StoreForms(_)
StoreForms(store) ==
    IF store = <<>> THEN {<<>>}
    ELSE LET audit_id == CHOOSE k \in DOMAIN Head(store) : TRUE
             audit_data == Head(store)[audit_id]
         IN  {<<audit_id :> [audit_data EXCEPT !.data = forms]>> \o rest :
                forms \in PatternForms(audit_data.data),
                rest \in StoreForms(Tail(store))}

SameOrderStore(store) ==
    [i \in 1..Len(store) |->
        LET audit_id == CHOOSE k \in DOMAIN store[i] : TRUE
            audit_data == store[i][audit_id]
        IN  audit_id :> [audit_data EXCEPT
              !.data = [k \in 1..Len(audit_data.data) |->
                          <<audit_data.data[k][1],
                            SameOrderListForm(audit_data.data[k][2])>>]]]

\* the (rule position, checkName, CheckSpec) triples the index builder is given
PairsOf(store, host) ==
    UNION {LET audit_data == store[i][CHOOSE k \in DOMAIN store[i] : TRUE]
               variant == SelectVariant(host, audit_data.data)
               items == IF variant.kind = "null" THEN <<>> ELSE Normalize(variant)
           IN  UNION {{<<i, n, items[j][n]>> : n \in DOMAIN items[j]} :
                      j \in 1..Len(items)}
           : i \in 1..Len(store)}

\* some rule id's selected variant is a malformed mapping of several checks
MalformedSelected ==
    \E i \in 1..Len(__data__) :
      LET audit_data == __data__[i][CHOOSE k \in DOMAIN __data__[i] : TRUE]
          variant == SelectVariant(distro, audit_data.data)
      IN  variant.kind = "dict" /\ Len(variant.v) >= 2

\* C9 as stated: a variant given as a sequence of single-key mappings and given
\* as the malformed mapping, in any order of its keys, put the same pairs into
\* the index and make audit return the same report.
C9_SameResults ==
    pc = "done" =>
      \A alt \in StoreForms(__data__) :
        /\ PairsOf(alt, distro) = PairsOf(__data__, distro)
        /\ CanReturn(alt, report)

\* C9 amended: the two forms put the same pairs into the index whatever the
\* order of the mapping's keys, and audit returns the same report when the
\* mapping enumerates its keys in the order of the sequence.
C9_SameOrderSameResults ==
    /\ distro # <<>> =>
         \A alt \in StoreForms(__data__) :
           PairsOf(alt, distro) = PairsOf(__data__, distro)
    /\ pc = "done" => CanReturn(SameOrderStore(__data__), report)

\* C9's case: a finished run whose index was built from a malformed mapping
C9_Witness ==
    /\ pc = "done"
    /\ MalformedSelected

====
